---- MODULE Spec2Model ----
(***************************************************************************)
(* Model of event_generator.py: the toy generator of K0_S -> pi+ pi-       *)
(* decays (ks2pipi), its Lorentz boost (lorentz_boost), the measurement    *)
(* smearing (measurement_sampler) and their composition (generate).        *)
(*                                                                         *)
(* Numbers.  The program computes in IEEE doubles.  The model computes in  *)
(* exact rationals <<n, d>> (d > 0, lowest terms), extended with the       *)
(* three special values of the doubles that the program can produce:       *)
(* NaN = <<0,0>>, +inf = <<1,0>>, -inf = <<-1,0>>.  Rounding is not         *)
(* modelled (the program's tests compare with np.allclose); signed zeros   *)
(* are not modelled.  Square roots are exact on squares of rationals, and  *)
(* the inputs of the model (mass tables, random draws, lab momenta, boost  *)
(* velocities) are chosen so that every square root the program takes is   *)
(* one; elsewhere Sqrt rounds down to 1/100.                               *)
(*                                                                         *)
(* Arrays.  A 2-D array is a sequence of rows, a row a sequence of         *)
(* numbers.  Where the number of dimensions decides what numpy does        *)
(* (lorentz_boost), an array is [ndim |-> 1 or 2, a |-> its contents].     *)
(***************************************************************************)
EXTENDS Integers, Sequences, FiniteSets, TLC

VARIABLES MASS_DICT, cov, ptot, call, ret

vars == <<MASS_DICT, cov, ptot, call, ret>>

(***************************************************************************)
(* Bounds                                                                  *)
(***************************************************************************)
\* the largest batch size N (and number of rows K of a boosted batch)
MaxN == 2

(***************************************************************************)
(* Floating-point numbers as extended rationals                            *)
(***************************************************************************)
Abs(i) == IF i < 0 THEN -i ELSE i

Sign(i) == IF i < 0 THEN -1 ELSE IF i = 0 THEN 0 ELSE 1

RECURSIVE GCD(_, _)
GCD(a, b) == IF b = 0 THEN a ELSE GCD(b, a % b)

\* n/d in lowest terms with a positive denominator; n/0 is NaN or +-inf
Norm(n, d) ==
    IF d = 0 THEN <<Sign(n), 0>>
    ELSE LET g == GCD(Abs(n), Abs(d))
         IN  <<Sign(d) * (n \div g), Abs(d) \div g>>

R(n, d) == Norm(n, d)

Num(i) == <<i, 1>>

NaN == <<0, 0>>

IsFinite(x) == x[2] # 0

IsNaN(x) == x = NaN

Neg(x) == <<-x[1], x[2]>>

Mul(x, y) ==
    LET g1 == GCD(Abs(x[1]), y[2])
        g2 == GCD(Abs(y[1]), x[2])
        a1 == IF g1 = 0 THEN x[1] ELSE x[1] \div g1
        b2 == IF g1 = 0 THEN y[2] ELSE y[2] \div g1
        b1 == IF g2 = 0 THEN y[1] ELSE y[1] \div g2
        a2 == IF g2 = 0 THEN x[2] ELSE x[2] \div g2
    IN  IF IsNaN(x) \/ IsNaN(y) THEN NaN ELSE Norm(a1 * b1, a2 * b2)

Add(x, y) ==
    IF IsNaN(x) \/ IsNaN(y) THEN NaN
    ELSE IF ~IsFinite(x) /\ ~IsFinite(y) THEN (IF x = y THEN x ELSE NaN)
    ELSE IF ~IsFinite(x) THEN x
    ELSE IF ~IsFinite(y) THEN y
    ELSE LET g == GCD(x[2], y[2])
         IN  Norm(x[1] * (y[2] \div g) + y[1] * (x[2] \div g), (x[2] \div g) * y[2])

Sub(x, y) == Add(x, Neg(y))

\* 1/x; 1/0 is +inf, 1/inf is 0
Recip(x) == IF IsNaN(x) THEN NaN ELSE Norm(x[2], x[1])

Div(x, y) == Mul(x, Recip(y))

Sq(x) == Mul(x, x)

RECURSIVE ISqrtIn(_, _, _)
ISqrtIn(n, lo, hi) ==
    IF lo >= hi THEN lo
    ELSE LET mid == (lo + hi + 1) \div 2
         IN  IF mid * mid <= n THEN ISqrtIn(n, mid, hi) ELSE ISqrtIn(n, lo, mid - 1)

\* the integer part of the square root of n >= 0
ISqrt(n) == ISqrtIn(n, 0, IF n < 46340 THEN n ELSE 46340)

\* np.sqrt: NaN below zero, exact on squares of rationals, else rounded down
Sqrt(x) ==
    IF IsNaN(x) \/ x[1] < 0 THEN NaN
    ELSE IF ~IsFinite(x) THEN x
    ELSE LET rn == ISqrt(x[1])
             rd == ISqrt(x[2])
         IN  IF rn * rn = x[1] /\ rd * rd = x[2] THEN <<rn, rd>>
             ELSE IF x[1] < 200000 THEN Norm(ISqrt((x[1] * 10000) \div x[2]), 100)
             ELSE Norm(ISqrt(x[1] \div x[2]), 1)

\* equality of two computed numbers, as np.allclose decides it: never for NaN/inf
Close(x, y) == IsFinite(x) /\ IsFinite(y) /\ x = y

(***************************************************************************)
(* Rows (1-D arrays) and batches (2-D arrays)                              *)
(***************************************************************************)
\* the array with the entries of f, each computed once
Arr(f) == f \o <<>>

RECURSIVE SumSeq(_)
SumSeq(s) == IF s = <<>> THEN Num(0) ELSE Add(Head(s), SumSeq(Tail(s)))

VAdd(u, v) == Arr([j \in 1..Len(u) |-> Add(u[j], v[j])])

VSub(u, v) == Arr([j \in 1..Len(u) |-> Sub(u[j], v[j])])

VNeg(u) == Arr([j \in 1..Len(u) |-> Neg(u[j])])

VScale(c, u) == Arr([j \in 1..Len(u) |-> Mul(c, u[j])])

\* np.dot of two rows
Dot(u, v) == SumSeq(Arr([j \in 1..Len(u) |-> Mul(u[j], v[j])]))

\* np.sum(p ** 2, axis=-1) of one row
SumSq(u) == Dot(u, u)

MAdd(A, B) == Arr([i \in 1..Len(A) |-> VAdd(A[i], B[i])])

MNeg(A) == Arr([i \in 1..Len(A) |-> VNeg(A[i])])

\* the columns 1: of a batch of 4-vectors (a[:, 1:])
SpaceCols(A) == Arr([i \in 1..Len(A) |-> SubSeq(A[i], 2, 4)])

AllNaN(A) == \A i \in 1..Len(A) : \A j \in 1..Len(A[i]) : IsNaN(A[i][j])

(***************************************************************************)
(* Kinematics                                                              *)
(***************************************************************************)
\* gamma(beta) = 1. / np.sqrt(1. - beta**2)
gamma(beta) == Div(Num(1), Sqrt(Sub(Num(1), Sq(beta))))

\* np.linalg.norm(bv), for a 1-D bv and for a 1 x 3 one alike
norm(bv) == Sqrt(SumSq(IF bv.ndim = 1 THEN bv.a ELSE bv.a[1]))

\* the time component of the boosted 4-vector (t, r):
\* gam * t - beta * np.dot(r, n.T)
BoostTime(gam, beta, t, rn) == Sub(Mul(gam, t), Mul(beta, rn))

\* its space components: r + (gam - 1) * np.dot(r, n.T) * n - gam * t * beta * n
BoostSpace(gam, beta, t, r, rn, n) ==
    VSub(VAdd(r, VScale(Mul(Sub(gam, Num(1)), rn), n)),
         VScale(Mul(Mul(gam, t), beta), n))

\* BoostRows with the projection of the first row used for every row
BoostRows_firstdot(lv, gam, beta, n) ==
    Arr([i \in 1..Len(lv) |->
        LET t  == lv[i][1]
            r  == SubSeq(lv[i], 2, 4)
            rn == Dot(SubSeq(lv[1], 2, 4), n)
        IN  <<BoostTime(gam, beta, t, rn)>> \o BoostSpace(gam, beta, t, r, rn, n)])

\* lv is K x 4 and bv is 1 x 3: np.dot(r, n.T) is K x 1 and every row is
\* transformed with its own t and r
BoostRows(lv, gam, beta, n) ==
    Arr([i \in 1..Len(lv) |->
        LET t  == lv[i][1]
            r  == SubSeq(lv[i], 2, 4)
            rn == Dot(r, n)
        IN  <<BoostTime(gam, beta, t, rn)>> \o BoostSpace(gam, beta, t, r, rn, n)])

\* lv is 3 x 4 and bv is 1-D: np.dot(r, n) is 1-D of length 3 and broadcasts
\* along the columns, so column_stack joins a 3 x 3 time block, entry (i, j)
\* gam*t_i - beta*dot_j, to a 3 x 3 space block that adds (gam-1)*dot_j*n_j
BoostBroadcast(lv, gam, beta, n) ==
    LET dot(j) == Dot(SubSeq(lv[j], 2, 4), n)
    IN  Arr([i \in 1..3 |->
            [j \in 1..3 |-> Sub(Mul(gam, lv[i][1]), Mul(beta, dot(j)))]
            \o [j \in 1..3 |->
                  Sub(Add(lv[i][j + 1], Mul(Mul(Sub(gam, Num(1)), dot(j)), n[j])),
                      Mul(Mul(Mul(gam, lv[i][1]), beta), n[j]))]])

Raised(e) == [exc |-> e, ndim |-> 0, a |-> <<>>]

Array2(rows) == [exc |-> "none", ndim |-> 2, a |-> rows]

\* lorentz_boost(lv, bv): lv[:, 0] raises IndexError on a 1-D lv; with a 1-D bv
\* the products broadcast only for 1 or 3 rows (ValueError otherwise)
lorentz_boost(lv, bv) ==
    LET beta == norm(bv)
        gam  == gamma(beta)
        bvec == IF bv.ndim = 1 THEN bv.a ELSE bv.a[1]
        n    == Arr([j \in 1..3 |-> Div(bvec[j], beta)])
    IN  IF lv.ndim = 1 THEN Raised("IndexError")
        ELSE IF bv.ndim = 2 \/ Len(lv.a) = 1 THEN Array2(BoostRows(lv.a, gam, beta, n))
        ELSE IF Len(lv.a) = 3 THEN Array2(BoostBroadcast(lv.a, gam, beta, n))
        ELSE Raised("ValueError")

\* energy(mass, p3) for one row p3
energy(mass, p3) == Sqrt(Add(Sq(mass), SumSq(p3)))

\* mass_sq(p4), row by row
mass_sq(p4) ==
    Arr([i \in 1..Len(p4) |-> Sub(Sq(p4[i][1]), SumSq(SubSeq(p4[i], 2, Len(p4[i]))))])

\* p3top4(p3, mass) = column_stack([energy(mass, p3), p3])
p3top4(p3, mass) == Arr([i \in 1..Len(p3) |-> <<energy(mass, p3[i])>> \o p3[i]])

(***************************************************************************)
(* The decay generator                                                     *)
(***************************************************************************)
\* None, the default of ks2pipi's pk and of generate's ptot
None == <<>>

\* epi = 0.5 * mks
RestEnergy(mks) == Mul(R(1, 2), mks)

\* ppi = np.sqrt(epi**2 - mpi**2)
DaughterMomentum(epi, mpi) == Sqrt(Sub(Sq(epi), Sq(mpi)))

\* np.cos and np.sin of phi = 2. * u * np.pi: a draw for phi is given by the
\* point of the unit circle it lands on
np_cos(phi) == phi.cos

np_sin(phi) == phi.sin

\* Direction with sinth = 1 - costh**2, the square root forgotten
Direction_nosqrt(u, phi) ==
    LET costh == Sub(Mul(Num(2), u), Num(1))
        sinth == Sub(Num(1), Sq(costh))
    IN  <<Mul(sinth, np_cos(phi)), Mul(sinth, np_sin(phi)), costh>>

\* one row of np.array([sinth*cosphi, sinth*sinphi, costh]).T, from the draw u
\* behind costh = 2. * u - 1 and the draw behind phi
Direction(u, phi) ==
    LET costh == Sub(Mul(Num(2), u), Num(1))
        sinth == Sqrt(Sub(Num(1), Sq(costh)))
    IN  <<Mul(sinth, np_cos(phi)), Mul(sinth, np_sin(phi)), costh>>

\* BoostVelocity with the sign dropped: bv = (pk.reshape(-1, 1) / energy(mks, pk)).T
BoostVelocity_unsigned(pk, mks) ==
    [ndim |-> 2, a |-> <<Arr([j \in 1..3 |-> Div(pk[j], energy(mks, pk))])>>]

\* bv = -(pk.reshape(-1, 1) / energy(mks, pk)).T, a 1 x 3 array
BoostVelocity(pk, mks) ==
    [ndim |-> 2, a |-> <<VNeg(Arr([j \in 1..3 |-> Div(pk[j], energy(mks, pk))]))>>]

\* PkAfter had ks2pipi divided in place: pk /= energy(mks, pk)
PkAfter_inplace(pk, mks) == Arr([j \in 1..3 |-> Div(pk[j], energy(mks, pk))])

\* what pk holds when ks2pipi returns: reshape gives a view and the division a
\* new array, so the caller's vector is as it was
PkAfter(pk, mks) == pk

\* RestPair with the sign of the second daughter dropped: return (p3pip, p3pip)
RestPair_same(p3pip) == <<p3pip, p3pip>>

\* return (p3pip, -p3pip)
RestPair(p3pip) == <<p3pip, MNeg(p3pip)>>

\* LabPair with the sign of the second daughter dropped:
\* p4pip[:, 1:], p4pim[:, 1:] = p3pip, p3pip
LabPair_same(p3pip, epi, bv) ==
    LET p4pip == Arr([i \in 1..Len(p3pip) |-> <<epi>> \o p3pip[i]])
    IN  <<SpaceCols(lorentz_boost([ndim |-> 2, a |-> p4pip], bv).a),
          SpaceCols(lorentz_boost([ndim |-> 2, a |-> p4pip], bv).a)>>

\* the boosted pair: both 4-vector batches through lorentz_boost with the one
\* bv, and the columns 1: of each
LabPair(p3pip, epi, bv) ==
    LET p4pip == Arr([i \in 1..Len(p3pip) |-> <<epi>> \o p3pip[i]])
        p4pim == Arr([i \in 1..Len(p3pip) |-> <<epi>> \o VNeg(p3pip[i])])
    IN  <<SpaceCols(lorentz_boost([ndim |-> 2, a |-> p4pip], bv).a),
          SpaceCols(lorentz_boost([ndim |-> 2, a |-> p4pim], bv).a)>>

\* ks2pipi(N, pk) with the draws us (np.random.rand(N) of costh) and phis
\* (np.random.rand(N) of phi); md is MASS_DICT.  Returns the pair (a, b) and
\* what the argument pk holds afterwards.
ks2pipi(N, pk, us, phis, md) ==
    LET mks   == md.K0_S
        mpi   == md.pi
        epi   == RestEnergy(mks)
        ppi   == DaughterMomentum(epi, mpi)
        p3pip == Arr([i \in 1..N |-> VScale(ppi, Direction(us[i], phis[i]))])
        pair  == IF pk # None THEN LabPair(p3pip, epi, BoostVelocity(pk, mks))
                 ELSE RestPair(p3pip)
    IN  [exc |-> "none", a |-> pair[1], b |-> pair[2],
         pk |-> IF pk # None THEN PkAfter(pk, mks) ELSE None]

(***************************************************************************)
(* The measurement model                                                   *)
(***************************************************************************)
\* cov.shape
Shape(cv) == <<Len(cv), Len(cv[1])>>

\* dp[:N], the draws added to p3pip
FirstDraws(dp, N) == SubSeq(dp, 1, N)

\* SecondDraws taking the first N draws again: dp[:N]
SecondDraws_first(dp, N) == SubSeq(dp, 1, N)

\* dp[N:], the draws added to p3pim
SecondDraws(dp, N) == SubSeq(dp, N + 1, Len(dp))

\* CovAccepted with the assertion removed
CovAccepted_any(cv) == TRUE

\* assert cov.shape == (3, 3)
CovAccepted(cv) == Shape(cv) = <<3, 3>>

\* np.random.multivariate_normal([0, 0, 0], cov, 2 * N) raises ValueError unless
\* cov is as long and as wide as the mean
DrawsAccepted(cv) == Shape(cv) = <<3, 3>>

\* what cov holds when measurement_sampler returns: it is only read
CovAfter(cv) == cv

\* measurement_sampler(p3pip, p3pim, cov) with dp the 2N draws of
\* np.random.multivariate_normal; same says that p3pip and p3pim are one
\* array object, which both += then change.  The pair returned holds the
\* argument arrays themselves.
measurement_sampler(p3pip, p3pim, same, cv, dp) ==
    LET N  == Len(p3pip)
        a1 == MAdd(p3pip, FirstDraws(dp, N))
        b1 == MAdd(IF same THEN a1 ELSE p3pim, SecondDraws(dp, N))
    IN  IF ~CovAccepted(cv)
        THEN [exc |-> "AssertionError", a |-> p3pip, b |-> p3pim, cov |-> CovAfter(cv)]
        ELSE IF ~DrawsAccepted(cv)
        THEN [exc |-> "ValueError", a |-> p3pip, b |-> p3pim, cov |-> CovAfter(cv)]
        ELSE [exc |-> "none", a |-> IF same THEN b1 ELSE a1, b |-> b1,
              cov |-> CovAfter(cv)]

\* generate(N, cov, ptot): k is what ks2pipi(N, ptot) returned, and
\* measurement_sampler gets its two arrays
generate(k, cv, dp) ==
    LET m == measurement_sampler(k.a, k.b, FALSE, cv, dp)
    IN  [exc |-> m.exc, a |-> m.a, b |-> m.b, cov |-> m.cov, pk |-> k.pk]

(***************************************************************************)
(* The self-test's checks                                                  *)
(***************************************************************************)
\* TestGenerator.check_mass: every row of mass_sq(p4pip + p4pim) is mks**2
check_mass(p3pip, p3pim, md) ==
    LET p4pip == p3top4(p3pip, md.pi)
        p4pim == p3top4(p3pim, md.pi)
        m2    == mass_sq(MAdd(p4pip, p4pim))
    IN  \A i \in 1..Len(m2) : Close(m2[i], Sq(md.K0_S))

\* TestGenerator.check_momentum: every row of p3pip + p3pim is ptot
check_momentum(p3pip, p3pim, pt) ==
    LET s == MAdd(p3pip, p3pim)
    IN  \A i \in 1..Len(s) : \A j \in 1..3 : Close(s[i][j], pt[j])

(***************************************************************************)
(* Inputs of the model                                                     *)
(***************************************************************************)
\* Mass tables {'K0_S': M, 'pi+': m}.  The table of the source (497.611 and
\* 139.57018 MeV) makes the pion momentum irrational; the model runs the code
\* on tables whose pion momentum sqrt((M/2)^2 - m^2) is rational (4 and 12).
MassTables == {[K0_S |-> Num(10), pi |-> Num(3)], [K0_S |-> Num(26), pi |-> Num(5)]}

\* Lab momenta a caller passes for a parent of mass mks: the zero vector, and
\* two of rational energy (5/4 and 5/3 of mks)
Ptots(mks) ==
    {<<Num(0), Num(0), Num(0)>>,
     VScale(mks, <<R(1, 2), R(1, 2), R(1, 4)>>),
     VScale(mks, <<Num(0), Num(0), R(-4, 3)>>)}

\* Covariance matrices a caller passes: np.diag([3, 3, 5]) of resolution_plot,
\* and a 2 x 2 one
Covs ==
    {<<<<Num(3), Num(0), Num(0)>>, <<Num(0), Num(3), Num(0)>>, <<Num(0), Num(0), Num(5)>>>>,
     <<<<Num(3), Num(0)>>, <<Num(0), Num(3)>>>>}

\* values of np.random.rand behind costh (costh = -1 and 3/5)
UDraws == {Num(0), R(4, 5)}

\* values of np.random.rand behind phi, by the point of the unit circle
PhiDraws == {[cos |-> Num(1), sin |-> Num(0)], [cos |-> R(-3, 5), sin |-> R(4, 5)]}

\* values of one draw of np.random.multivariate_normal
Noise == {<<Num(1), Num(0), Num(-2)>>, <<Num(0), Num(3), Num(1)>>}

\* rows of the momentum batches a caller hands to measurement_sampler
Rows == {<<Num(4), Num(0), Num(0)>>, <<Num(0), Num(-4), Num(3)>>}

\* 4-vectors a caller hands to lorentz_boost: two daughters of the rest-frame
\* decay (energy epi, momentum of magnitude ppi) and one off the mass shell
FourVecs(md) ==
    LET epi == RestEnergy(md.K0_S)
        ppi == DaughterMomentum(epi, md.pi)
    IN  {<<epi, Num(0), Num(0), Neg(ppi)>>,
         <<epi, Mul(ppi, R(4, 5)), Num(0), Mul(ppi, R(3, 5))>>,
         <<Num(1), Num(2), Num(0), Num(0)>>}

\* the batches of lorentz_boost: K x 4 arrays, and single 4-vectors (1-D)
LvInputs(md) ==
    {[ndim |-> 2, a |-> rows] : rows \in UNION {[1..K -> FourVecs(md)] : K \in 1..MaxN}}
    \cup {[ndim |-> 1, a |-> v] : v \in FourVecs(md)}

\* boost velocities with 0 < |bv| < 1 (|bv| = 3/5 and 4/5), as the 1 x 3 array
\* ks2pipi builds and as a plain 3-vector
BvInputs ==
    {[ndim |-> 2, a |-> <<v>>] :
        v \in {<<R(3, 5), Num(0), Num(0)>>, <<R(-2, 5), R(-2, 5), R(-1, 5)>>,
               <<Num(0), R(4, 5), Num(0)>>}}
    \cup {[ndim |-> 1, a |-> <<R(3, 5), Num(0), Num(0)>>]}

(***************************************************************************)
(* State: the module's mass table, the caller's covariance matrix and lab  *)
(* momentum (the objects it passes to the calls), the last call with its    *)
(* arguments as they were and the random draws it consumed, and what the    *)
(* call returned or raised.                                                *)
(***************************************************************************)
Call(op, N, pk, us, phis, dp, a0, b0, same, lv, bv) ==
    [op |-> op, N |-> N, pk |-> pk, us |-> us, phis |-> phis, dp |-> dp,
     a0 |-> a0, b0 |-> b0, same |-> same, lv |-> lv, bv |-> bv]

Returned(r) == [exc |-> r.exc, a |-> r.a, b |-> r.b]

Init ==
    /\ MASS_DICT \in MassTables
    /\ cov \in Covs
    /\ ptot \in Ptots(MASS_DICT.K0_S)
    /\ call = Call("none", 0, None, <<>>, <<>>, <<>>, <<>>, <<>>, FALSE, <<>>, <<>>)
    /\ ret = [exc |-> "none", a |-> <<>>, b |-> <<>>]

\* the caller holds no result of an earlier call
Idle == call.op = "none"

\* the argument a call gets for pk: the caller's ptot, or None
PkArg(usePk) == IF usePk THEN ptot ELSE None

\* p3pip, p3pim = ks2pipi(N) and ks2pipi(N, ptot)
Ks2pipiCall ==
    /\ Idle
    /\ \E N \in 1..MaxN, usePk \in BOOLEAN :
         \E us \in [1..N -> UDraws], phis \in [1..N -> PhiDraws] :
           \E r \in {ks2pipi(N, PkArg(usePk), us, phis, MASS_DICT)} :
             /\ call' = Call("ks2pipi", N, PkArg(usePk), us, phis, <<>>,
                             <<>>, <<>>, FALSE, <<>>, <<>>)
             /\ ret' = Returned(r)
             /\ ptot' = IF usePk THEN r.pk ELSE ptot
    /\ UNCHANGED <<MASS_DICT, cov>>

\* measurement_sampler(a, b, cov) on two N-row batches of the caller, or on
\* one batch passed twice
MeasurementSamplerCall ==
    /\ Idle
    /\ \E N \in 1..MaxN, same \in BOOLEAN :
         \E a0 \in [1..N -> Rows], b0 \in [1..N -> Rows], dp \in [1..2 * N -> Noise] :
           /\ same => a0 = b0
           /\ \E r \in {measurement_sampler(a0, b0, same, cov, dp)} :
                /\ call' = Call("measurement_sampler", N, None, <<>>, <<>>,
                                IF r.exc = "none" THEN dp ELSE <<>>,
                                a0, b0, same, <<>>, <<>>)
                /\ ret' = Returned(r)
                /\ cov' = r.cov
    /\ UNCHANGED <<MASS_DICT, ptot>>

\* generate(N, cov) and generate(N, cov, ptot)
GenerateCall ==
    /\ Idle
    /\ \E N \in 1..MaxN, usePk \in BOOLEAN :
         \E us \in [1..N -> UDraws], phis \in [1..N -> PhiDraws] :
           \E k \in {ks2pipi(N, PkArg(usePk), us, phis, MASS_DICT)} :
             \E dp \in [1..2 * N -> Noise] :
               \E r \in {generate(k, cov, dp)} :
                 /\ call' = Call("generate", N, PkArg(usePk), us, phis,
                                 IF r.exc = "none" THEN dp ELSE <<>>,
                                 <<>>, <<>>, FALSE, <<>>, <<>>)
                 /\ ret' = Returned(r)
                 /\ cov' = r.cov
                 /\ ptot' = IF usePk THEN r.pk ELSE ptot
    /\ UNCHANGED MASS_DICT

\* lorentz_boost(lv, bv)
LorentzBoostCall ==
    /\ Idle
    /\ \E lv \in LvInputs(MASS_DICT), bv \in BvInputs :
         \E r \in {lorentz_boost(lv, bv)} :
           /\ call' = Call("lorentz_boost", 0, None, <<>>, <<>>, <<>>,
                           <<>>, <<>>, FALSE, lv, bv)
           /\ ret' = [exc |-> r.exc, a |-> r.a, b |-> <<>>]
    /\ UNCHANGED <<MASS_DICT, cov, ptot>>

\* -bv, in the shape of bv
Opposite(bv) ==
    [ndim |-> bv.ndim, a |-> IF bv.ndim = 1 THEN VNeg(bv.a) ELSE <<VNeg(bv.a[1])>>]

\* lorentz_boost(lorentz_boost(lv, bv), -bv): the boost back of the K x 4 batch
\* that the last call returned
BoostBackCall ==
    /\ call.op = "lorentz_boost"
    /\ ret.exc = "none"
    /\ Len(ret.a[1]) = 4
    /\ \E r \in {lorentz_boost([ndim |-> 2, a |-> ret.a], Opposite(call.bv))} :
         /\ call' = [call EXCEPT !.op = "boost_back"]
         /\ ret' = [exc |-> r.exc, a |-> r.a, b |-> <<>>]
    /\ UNCHANGED <<MASS_DICT, cov, ptot>>

\* the caller is done with the result (a test method returns): the arrays are
\* dropped, the mass table and the caller's cov and ptot stay for the next call
Return ==
    /\ ~Idle
    /\ call' = Call("none", 0, None, <<>>, <<>>, <<>>, <<>>, <<>>, FALSE, <<>>, <<>>)
    /\ ret' = [exc |-> "none", a |-> <<>>, b |-> <<>>]
    /\ UNCHANGED <<MASS_DICT, cov, ptot>>

Next ==
    \/ Ks2pipiCall
    \/ MeasurementSamplerCall
    \/ GenerateCall
    \/ LorentzBoostCall
    \/ BoostBackCall
    \/ Return

Spec == Init /\ [][Next]_vars

(***************************************************************************)
(* Properties                                                              *)
(***************************************************************************)
Zero3 == <<Num(0), Num(0), Num(0)>>

\* the last call was ks2pipi(N, P) with a non-zero lab momentum P
LabCall == call.op = "ks2pipi" /\ call.pk # None /\ call.pk # Zero3

\* the last call was ks2pipi(N) without a lab momentum
RestCall == call.op = "ks2pipi" /\ call.pk = None

\* the last call was lorentz_boost on a K x 4 batch with a 1 x 3 velocity
BatchBoost == call.op = "lorentz_boost" /\ call.lv.ndim = 2 /\ call.bv.ndim = 2

\* C1: after ks2pipi(N, P) with a non-zero lab momentum P, every row i of the
\* two returned batches satisfies A[i] + B[i] = P, the one P of the call.
LabMomentumConserved ==
    LabCall =>
        /\ Len(ret.a) = call.N /\ Len(ret.b) = call.N
        /\ check_momentum(ret.a, ret.b, call.pk)

LabMomentumReached ==
    /\ LabCall
    /\ call.N >= 2
    /\ ret.a[1] # ret.a[2]
    /\ MAdd(ret.a, ret.b)[2] = call.pk

\* C2: after ks2pipi(N, P) with a non-zero lab momentum P, the two batches
\* lifted to 4-vectors with the pion mass and added row by row have the
\* squared K0_S mass as mass_sq in every row.
LabMassShell == LabCall => check_mass(ret.a, ret.b, MASS_DICT)

LabMassReached ==
    /\ LabCall
    /\ call.N >= 2
    /\ call.us[1] # call.us[2]
    /\ mass_sq(MAdd(p3top4(ret.a, MASS_DICT.pi), p3top4(ret.b, MASS_DICT.pi)))[1]
           = Sq(MASS_DICT.K0_S)

\* C3: after ks2pipi(N) without a lab momentum, B[i] is the exact negative of
\* A[i] in every component of every row, so A[i] + B[i] is the zero vector.
RestMomentumBackToBack ==
    RestCall =>
        /\ Len(ret.a) = call.N /\ Len(ret.b) = call.N
        /\ \A i \in 1..call.N : \A j \in 1..3 :
              /\ IsFinite(ret.a[i][j])
              /\ ret.b[i][j] = Neg(ret.a[i][j])
        /\ check_momentum(ret.a, ret.b, Zero3)

RestMomentumReached ==
    /\ RestCall
    /\ call.N >= 2
    /\ ret.a[1] # ret.a[2]
    /\ ret.a[2] # Zero3
    /\ ret.b[2] = VNeg(ret.a[2])

\* C4: after ks2pipi(N) without a lab momentum, the two batches lifted to
\* 4-vectors with the pion mass and added row by row have the squared K0_S
\* mass as mass_sq in every row, and every daughter momentum has the squared
\* magnitude (M/2)^2 - m^2 whatever direction was drawn.
RestMassShell ==
    RestCall =>
        /\ check_mass(ret.a, ret.b, MASS_DICT)
        /\ \A i \in 1..call.N :
              Close(SumSq(ret.a[i]),
                    Sub(Sq(Mul(R(1, 2), MASS_DICT.K0_S)), Sq(MASS_DICT.pi)))

RestMassReached ==
    /\ RestCall
    /\ call.N >= 2
    /\ call.us[1] # call.us[2]
    /\ call.phis[1] # call.phis[2]
    /\ check_mass(ret.a, ret.b, MASS_DICT)

\* C5: lorentz_boost(lorentz_boost(lv, bv), -bv) equals lv in every row and in
\* all four components, for a batch lv and 0 < |bv| < 1.
BoostRoundTrip ==
    (call.op = "boost_back" /\ call.lv.ndim = 2 /\ call.bv.ndim = 2) =>
        /\ ret.exc = "none"
        /\ ret.a = call.lv.a

\* C6: mass_sq(lorentz_boost(v, bv)) = mass_sq(v) for every 4-vector v of the
\* batch and 0 < |bv| < 1.
BoostKeepsMass ==
    BatchBoost =>
        /\ ret.exc = "none"
        /\ mass_sq(ret.a) = mass_sq(call.lv.a)

SmearSlices ==
    (call.op = "measurement_sampler" /\ ~call.same /\ ret.exc = "none") =>
        /\ Len(call.dp) = 2 * call.N
        /\ Len(ret.a) = call.N /\ Len(ret.b) = call.N
        /\ \A i \in 1..call.N :
              /\ ret.a[i] = VAdd(call.a0[i], call.dp[i])
              /\ ret.b[i] = VAdd(call.b0[i], call.dp[call.N + i])

SmearSlicesReached ==
    /\ call.op = "measurement_sampler"
    /\ ~call.same
    /\ ret.exc = "none"
    /\ call.N >= 2
    /\ call.dp[1] # call.dp[2]
    /\ call.dp[1] # call.dp[call.N + 1]
    /\ call.a0 = call.b0

\* C9, as claimed: measurement_sampler, generate and ks2pipi never end in an
\* error, whatever the covariance and the lab momentum.
NoErrorRaised ==
    call.op \in {"measurement_sampler", "generate", "ks2pipi"} => ret.exc = "none"

\* C9, amended: measurement_sampler and generate raise AssertionError when the
\* covariance is not 3 x 3 and return normally when it is; ks2pipi raises
\* nothing, and with a zero-vector lab momentum it returns two batches whose
\* every entry is NaN.
PreconditionOutcomes ==
    /\ call.op \in {"measurement_sampler", "generate"} =>
          ret.exc = IF Len(cov) = 3 /\ Len(cov[1]) = 3 THEN "none" ELSE "AssertionError"
    /\ call.op = "ks2pipi" =>
          /\ ret.exc = "none"
          /\ call.pk = Zero3 =>
                /\ Len(ret.a) = call.N /\ Len(ret.b) = call.N
                /\ AllNaN(ret.a) /\ AllNaN(ret.b)

AssertionReached ==
    /\ call.op = "generate"
    /\ Len(cov) # 3
    /\ ret.exc = "AssertionError"

\* C10: no call changes the mass table, the covariance matrix or the
\* lab-momentum vector the caller passes.
CallerStateKept == [][MASS_DICT' = MASS_DICT /\ cov' = cov /\ ptot' = ptot]_vars

CallerStateReached ==
    /\ call.op = "generate"
    /\ call.pk # None /\ call.pk # Zero3
    /\ ret.exc = "none"
    /\ ptot = call.pk
    /\ MASS_DICT \in MassTables

====
